---- MODULE Spec2Model ----
(***************************************************************************)
(* A model of tools/merge-from-chromium.py: the Revision Resolver          *)
(* (_GetThirdPartyProjectMergeInfo), the Merge Orchestrator                *)
(* (_MergeProjects, _CheckNoConflictsAndCommitMerge), the Snapshot Driver  *)
(* (_Snapshot, main) and the regenerators it calls.  git, the operator at  *)
(* the prompt and the modules imported from the merged tree are the        *)
(* environment: their results are nondeterministic choices.                *)
(***************************************************************************)
EXTENDS Integers, Sequences, FiniteSets, TLC

VARIABLES
  pc,                   \* position of the process in the script
  run,                  \* number of the current invocation of the script
  args,                 \* positional arguments were supplied
  envMarker,            \* ANDROID_BUILD_TOP is in os.environ
  svn_revision,         \* options.svn_revision (0 models None)
  root_sha1,            \* the root revision resolved by _GetSVNRevisionAndSHA1 (0: not yet)
  upstream,             \* newest revision of the upstream branch
  exitCode,             \* exit code of the current invocation (-1: still running)
  error,                \* why the current invocation raised ("none" if it did not)
  faults,               \* the environment made some command of this invocation fail
  lastCmd,              \* the last command given to _GetCommandStdout: its name, its -m
                        \* argument, its working directory, and its return code
  third_party_projects, \* argument of _GetThirdPartyProjectMergeInfo
  deps_vars,            \* the parsed .DEPS.git
  merge_info,           \* result of _GetThirdPartyProjectMergeInfo
  remaining,            \* keys the current dictionary loop has still to visit
  cwd,                  \* the repository the current step works in
  head,                 \* per repository: newest upstream revision contained in HEAD
  goog,                 \* per repository: revision of goog/master-chromium
  branch,               \* per repository: local branch merge-from-chromium exists
  merging,              \* per repository: a merge is in progress (MERGE_HEAD)
  staged,               \* per repository: the index differs from HEAD
  status,               \* per repository: conflict entries of git status --porcelain
  tracked,              \* per repository: files in the index
  commits,              \* per repository: kinds of the commits this invocation made
  commit_message,       \* local variable of _CheckNoConflictsAndCommitMerge
  prompts,              \* raw_input rounds of the current conflict resolution
  new_commit_message,   \* local variable of _CheckNoConflictsAndCommitMerge: the last reply
  replied,              \* the operator entered a non-empty reply in this resolution
  reported,             \* the conflict entries of the status read at line 196
  webview_licenses,     \* the late-bound global: "None" or "module"
  directories_left_over, \* what GetIncompatibleDirectories returned: "unknown", "empty", "some"
  calls,                \* what this invocation has called so far
  phase,                \* per repository: state of the merge state machine in this invocation
  newHistory,           \* per repository: what the diff-check of this invocation found
  excluded,             \* paths of KNOWN_INCOMPATIBLE whose git rm of line 289 was run
  attempts,             \* per repository: git merge was run in this invocation
  idx,                  \* index of the list loops of _GenerateMakefiles
  prev                  \* summary of the previous invocation

vars == <<pc, run, args, envMarker, svn_revision, root_sha1, upstream, exitCode,
          error, faults, lastCmd, third_party_projects, deps_vars, merge_info,
          remaining, cwd, head, goog, branch, merging, staged, status, tracked,
          commits, commit_message, prompts, new_commit_message, replied, reported,
          webview_licenses,
          directories_left_over,
          calls, phase, newHistory, attempts, excluded, idx, prev>>

----------------------------------------------------------------------------
(* Bounds *)

MaxEntryLen == 5   \* longest manifest entry string of the resolver's inputs
MaxRev == 2        \* upstream revisions are 1..MaxRev
MaxPrompts == 2    \* raw_input rounds in one conflict resolution

----------------------------------------------------------------------------
(* Strings are sequences of characters; a manifest value is None, a string *)
(* or a From object.                                                       *)

NL == "\n"
Alphabet == {"u", "@", "1", NL}

RECURSIVE StringsOfLen(_)
StringsOfLen(n) ==
  IF n = 0 THEN {<< >>}
  ELSE {Append(s, c) : s \in StringsOfLen(n - 1), c \in Alphabet}

Strings == UNION {StringsOfLen(n) : n \in 0..MaxEntryLen}

None == [kind |-> "None", s |-> << >>]
Str(s) == [kind |-> "str", s |-> s]
FromObj == [kind |-> "From", s |-> << >>]

\* Python truth value of a manifest value
Truthy(v) == v.kind = "From" \/ (v.kind = "str" /\ v.s # << >>)

Digits == <<"1", "2", "3", "4">>
RevToSha(n) == <<Digits[n]>>
\* the revision a name denotes in a repository, 0 if git does not know it
ShaToRev(s) ==
  IF Len(s) = 1 /\ \E n \in 1..MaxRev : Digits[n] = s[1]
  THEN CHOOSE n \in 1..MaxRev : Digits[n] = s[1]
  ELSE 0

THIRD_PARTY_PROJECTS == <<"googleurl", "v8">>
Root == "."
ALL_PROJECTS == <<Root>> \o THIRD_PARTY_PROJECTS
Paths == {THIRD_PARTY_PROJECTS[i] : i \in DOMAIN THIRD_PARTY_PROJECTS}
Repos == {ALL_PROJECTS[i] : i \in DOMAIN ALL_PROJECTS}

\* os.path.join('src', path)
DepsKey(path) == <<"src", path>>

\* a faulty variant of Get: a default entry instead of None
Get_default(d, k) == IF k \in DOMAIN d THEN d[k] ELSE Str(<<"u", "@", "1">>)

\* dict.get(key)
Get(d, k) == IF k \in DOMAIN d THEN d[k] ELSE None

----------------------------------------------------------------------------
\* re.match of the pattern at line 181: a lazy group, '@', a greedy group;
\* '.' does not match a newline

RECURSIVE FirstAt(_, _)
FirstAt(s, i) ==
  IF i > Len(s) THEN 0
  ELSE IF s[i] = "@" THEN i
  ELSE FirstAt(s, i + 1)

RECURSIVE LineLen(_, _)
LineLen(s, i) ==
  IF i > Len(s) \/ s[i] = NL THEN i - 1
  ELSE LineLen(s, i + 1)

AtIndex(s) == FirstAt(s, 1)

re_match(s) ==
  LET i == AtIndex(s)
      rest == SubSeq(s, i + 1, Len(s))
  IN  IF i = 0 \/ LineLen(s, 1) < i - 1
      THEN [matched |-> FALSE, group1 |-> << >>, group2 |-> << >>]
      ELSE [matched |-> TRUE,
            group1 |-> SubSeq(s, 1, i - 1),
            group2 |-> SubSeq(rest, 1, LineLen(rest, 1))]

(* _GetThirdPartyProjectMergeInfo *)

\* a faulty variant of deps_fallback_order: the platform overrides first
deps_fallback_order_reversed(dv) == <<dv.android, dv.unix, dv.deps>>

deps_fallback_order(dv) == <<dv.deps, dv.unix, dv.android>>

\* the inner for/else: the first truthy deps.get(), or None when the loop ends
RECURSIVE FallbackLookup(_, _, _)
FallbackLookup(order, key, i) ==
  IF i > Len(order) THEN None
  ELSE IF Truthy(Get(order[i], key)) THEN Get(order[i], key)
  ELSE FallbackLookup(order, key, i + 1)

NoInfo == [p \in {} |-> [url |-> << >>, sha1 |-> << >>]]

RECURSIVE ResolveFrom(_, _, _, _)
ResolveFrom(projects, dv, i, result) ==
  IF i > Len(projects) THEN [status |-> "ok", path |-> "", info |-> result]
  ELSE
    LET path == projects[i]
        url_plus_sha1 == FallbackLookup(deps_fallback_order(dv), DepsKey(path), 1)
    IN  IF ~Truthy(url_plus_sha1)
        THEN [status |-> "RuntimeError", path |-> path, info |-> NoInfo]
        ELSE IF url_plus_sha1.kind # "str"
        THEN [status |-> "TypeError", path |-> path, info |-> NoInfo]
        ELSE IF ~re_match(url_plus_sha1.s).matched
        THEN [status |-> "AttributeError", path |-> path, info |-> NoInfo]
        ELSE ResolveFrom(projects, dv, i + 1,
               [p \in (DOMAIN result) \cup {path} |->
                  IF p = path
                  THEN [url |-> re_match(url_plus_sha1.s).group1,
                        sha1 |-> re_match(url_plus_sha1.s).group2]
                  ELSE result[p]])

GetThirdPartyProjectMergeInfo(projects, dv) == ResolveFrom(projects, dv, 1, NoInfo)

NotResolved == [status |-> "pending", path |-> "", info |-> NoInfo]

----------------------------------------------------------------------------
(* Constants of the script and of the tree it works on *)

AUTOGEN_MESSAGE == "This commit was generated by merge-from-chromium.py."
OperatorMsgs == {"m1", "m2"}

Files == {<<"gpl", "b.c">>, <<"base", "a.cc">>}
\* a faulty variant of DeletedByUs: DU is missing from the pattern
DeletedByUs_bothOnly == {"DD"}
\* the markers of the pattern at line 197
DeletedByUs == {"DD", "DU"}
ConflictMarkers == {"DD", "AU", "UD", "UA", "DU", "AA", "UU"}

\* the files of the upstream tree of each project
UpstreamFiles(r) ==
  IF r = "googleurl" THEN {<<"base", "a.cc">>}
  ELSE IF r = "v8" THEN {<<"gpl", "b.c">>}
  ELSE Files

\* known_incompatible.KNOWN_INCOMPATIBLE: path -> list of pathspecs
KNOWN_INCOMPATIBLE ==
  [p \in {Root, "v8"} |->
     IF p = Root THEN << <<"gpl">> >> ELSE << <<"nothere">>, <<"gpl">> >>]

\* a pathspec names a file or a directory above it
Matches(pat, f) == Len(pat) <= Len(f) /\ SubSeq(f, 1, Len(pat)) = pat
MatchesAny(pats, f) == \E i \in DOMAIN pats : Matches(pats[i], f)

\* the conflict reports git status can give over some files: one marker per file
ConflictStatuses(files) ==
  {st \in SUBSET (ConflictMarkers \X files) :
     \A e1 \in st, e2 \in st : e1[2] = e2[2] => e1 = e2}

\* a faulty variant of FilesWith: of the markers only UU is looked for
FilesWith_unmergedOnly(st, markers) ==
  {e[2] : e \in {x \in st : x[1] \in markers \cap {"UU"}}}

\* the files of the matches of a regular expression over the status
FilesWith(st, markers) == {e[2] : e \in {x \in st : x[1] \in markers}}

\* the output of git rev-list -1 HEAD..target where HEAD contains the
\* upstream revisions up to h
RevList(target, h) == IF target > h THEN <<"sha">> ELSE << >>

\* a faulty variant of NewCommits: the output is not looked at
NewCommits_always(out) == TRUE

\* line 250: the output of rev-list as a condition
NewCommits(out) == out # << >>

\* a faulty variant of Raises: the return code is not looked at
Raises_never(rc, ignore_errors) == FALSE

\* a faulty variant of Raises: ignore_errors is not honoured
Raises_always(rc, ignore_errors) == rc # 0

\* _GetCommandStdout raises unless the command returned 0 or errors are ignored
Raises(rc, ignore_errors) == ~(rc = 0 \/ ignore_errors)

\* the value _Snapshot returns: it has no return statement with a value
SnapshotReturn == "None"
\* main: 'if not _Snapshot(...): return 1', then 'return 0'
MainExit(r) == IF r = "None" \/ r = "False" THEN 1 ELSE 0

ToolMsg(path, url, sha1) ==
  [by |-> "tool", text |-> AUTOGEN_MESSAGE, path |-> path, url |-> url, sha1 |-> sha1]
OperatorMsg(reply) ==
  [by |-> "operator", text |-> reply, path |-> "", url |-> << >>, sha1 |-> << >>]
NoMsg == [by |-> "none", text |-> "", path |-> "", url |-> << >>, sha1 |-> << >>]

EmptyDeps == [deps |-> << >>, unix |-> << >>, android |-> << >>]
NoCmd == [cmd |-> "none", msg |-> NoMsg, rc |-> 0, cwd |-> Root]
NoPrev == [calls |-> {}, upstream |-> 0, svn_revision |-> 0,
           merged |-> [r \in Repos |-> 0]]

----------------------------------------------------------------------------
(* The .DEPS.git files the orchestrator may read *)

Entry(url, sha1) == Str(url \o <<"@">> \o sha1)

GoodManifests ==
  {[deps |-> (DepsKey("googleurl") :> Entry(<<"u">>, RevToSha(MaxRev))),
    unix |-> << >>,
    android |-> (DepsKey("v8") :> Entry(<<"u">>, RevToSha(r)))] : r \in 1..MaxRev}

BadManifests ==
  { \* the project list is stale: no entry for v8
    [deps |-> (DepsKey("googleurl") :> Entry(<<"u">>, RevToSha(1))),
     unix |-> << >>, android |-> << >>],
    \* an entry without '@'
    [deps |-> (DepsKey("googleurl") :> Str(<<"u", "1">>)),
     unix |-> << >>,
     android |-> (DepsKey("v8") :> Entry(<<"u">>, RevToSha(1)))],
    \* a url with a user name in it
    [deps |-> (DepsKey("googleurl") :> Entry(<<"u", "@", "u">>, RevToSha(1))),
     unix |-> << >>,
     android |-> (DepsKey("v8") :> Entry(<<"u">>, RevToSha(1)))] }

ManifestPool == GoodManifests \cup BadManifests

----------------------------------------------------------------------------
(* Groups of variables *)

inputs == <<run, args, envMarker, svn_revision, upstream, prev>>
driver == <<root_sha1, calls, webview_licenses, directories_left_over>>
resolver == <<third_party_projects, deps_vars, merge_info>>
loops == <<remaining, cwd, idx>>
machine == <<phase, newHistory, attempts, excluded>>
refs == <<head, goog, branch>>
index == <<merging, staged, status, tracked>>
history == <<commits>>
check == <<commit_message, prompts, new_commit_message, replied, reported>>
data == <<inputs, driver, resolver, loops, machine, refs, index, history, check>>

Idle == [r \in Repos |-> "Idle"]
Unknown == [r \in Repos |-> "unknown"]
NoAttempts == [r \in Repos |-> FALSE]

\* a faulty variant of Abort: the exception is swallowed in the loop over
\* the sub-projects
Abort_goesOn(kind) ==
  /\ pc' = "sub_next"
  /\ error' = kind
  /\ exitCode' = 1

\* an uncaught exception ends the process with exit code 1
Abort(kind) ==
  /\ pc' = "raised"
  /\ error' = kind
  /\ exitCode' = 1

Continue(next) ==
  /\ pc' = next
  /\ UNCHANGED <<error, exitCode>>

\* the process returns from main
Exit(code) ==
  /\ pc' = "done"
  /\ exitCode' = code
  /\ UNCHANGED error

\* a call of _GetCommandStdout: the command fails when it must (forced) or
\* when the environment makes it fail
Ran(name, rc, fault) ==
  /\ lastCmd' = [cmd |-> name, msg |-> NoMsg, rc |-> rc, cwd |-> cwd]
  /\ faults' = (faults \/ fault)

RanCommit(message, rc, fault) ==
  /\ lastCmd' = [cmd |-> "commit", msg |-> message, rc |-> rc, cwd |-> cwd]
  /\ faults' = (faults \/ fault)

Rc(forced, fault) == IF forced \/ fault THEN 1 ELSE 0

TypeOK ==
  /\ pc \in STRING
  /\ run \in 1..2
  /\ exitCode \in {-1, 0, 1}
  /\ root_sha1 \in 0..MaxRev
  /\ upstream \in 1..MaxRev
  /\ head \in [Repos -> 0..MaxRev]
  /\ branch \in [Repos -> BOOLEAN]
  /\ prompts \in 0..MaxPrompts

----------------------------------------------------------------------------
(* Initial states *)

InitRun ==
  /\ exitCode = -1
  /\ error = "none"
  /\ faults = FALSE
  /\ lastCmd = NoCmd
  /\ root_sha1 = 0
  /\ calls = {}
  /\ webview_licenses = "None"
  /\ directories_left_over = "unknown"
  /\ deps_vars = EmptyDeps
  /\ merge_info = NotResolved
  /\ remaining = {}
  /\ cwd = Root
  /\ idx = 0
  /\ phase = Idle
  /\ newHistory = Unknown
  /\ attempts = NoAttempts
  /\ excluded = {}
  /\ commit_message = NoMsg
  /\ prompts = 0
  /\ replied = FALSE
  /\ new_commit_message = ""
  /\ reported = {}

InitTree ==
  /\ goog \in [Repos -> 0..1]
  /\ head \in [Repos -> 0..1]
  /\ head[Root] <= goog[Root]
  /\ \A r \in Paths : head[r] = 1 /\ goog[r] = 1
  /\ branch = [r \in Repos |-> FALSE]
  /\ merging = [r \in Repos |-> 0]
  /\ staged = [r \in Repos |-> FALSE]
  /\ status = [r \in Repos |-> {}]
  /\ tracked = [r \in Repos |-> {<<"base", "a.cc">>}]
  /\ commits = [r \in Repos |-> << >>]

Init ==
  /\ pc = "main"
  /\ run = 1
  /\ args \in BOOLEAN
  /\ envMarker \in BOOLEAN
  /\ svn_revision \in {0, MaxRev}
  /\ upstream = 1
  /\ prev = NoPrev
  /\ third_party_projects = THIRD_PARTY_PROJECTS
  /\ InitRun
  /\ InitTree

----------------------------------------------------------------------------
(* main and _Snapshot *)

\* a faulty variant of main: ANDROID_BUILD_TOP is not looked for
main_noEnvCheck ==
  /\ pc = "main"
  /\ UNCHANGED <<lastCmd, faults, inputs, root_sha1, webview_licenses,
                 directories_left_over, resolver, loops, machine, refs, index,
                 history, check>>
  /\ IF args THEN Exit(1) /\ UNCHANGED calls
     ELSE Continue("svn_fetch") /\ calls' = calls \cup {"_Snapshot"}

\* main, lines 443-452: usage error, missing environment marker, or the call
main ==
  /\ pc = "main"
  /\ UNCHANGED <<lastCmd, faults, inputs, root_sha1, webview_licenses,
                 directories_left_over, resolver,
                 loops, machine, refs, index, history, check>>
  /\ IF args THEN Exit(1) /\ UNCHANGED calls
     ELSE IF ~envMarker THEN Exit(1) /\ UNCHANGED calls
     ELSE Continue("svn_fetch") /\ calls' = calls \cup {"_Snapshot"}

\* _GetSVNRevisionAndSHA1, lines 373-374: git fetch -f into cached_upstream
GetSVNRevisionAndSHA1_fetch ==
  /\ pc = "svn_fetch"
  /\ \E fault \in BOOLEAN :
       /\ Ran("fetch", Rc(FALSE, fault), fault)
       /\ IF Raises(Rc(FALSE, fault), FALSE) THEN Abort("CommandFailed")
          ELSE Continue("svn_log")
  /\ UNCHANGED data

\* _GetSVNRevisionAndSHA1, lines 375-389: git log of cached_upstream; a
\* revision that no commit carries leaves nothing to take [0] of
GetSVNRevisionAndSHA1_log ==
  /\ pc = "svn_log"
  /\ \E fault \in BOOLEAN :
       /\ Ran("log", Rc(FALSE, fault), fault)
       /\ IF Raises(Rc(FALSE, fault), FALSE)
          THEN Abort("CommandFailed") /\ UNCHANGED root_sha1
          ELSE IF svn_revision > upstream
          THEN Abort("IndexError") /\ UNCHANGED root_sha1
          ELSE /\ Continue("snap_revlist")
               /\ root_sha1' = IF svn_revision # 0 THEN svn_revision ELSE upstream
  /\ UNCHANGED <<inputs, calls, webview_licenses,
                 directories_left_over, resolver, loops, machine, refs,
                 index, history, check>>

\* _Snapshot, lines 403-409: nothing new beyond HEAD is a bare return
Snapshot_revlist ==
  /\ pc = "snap_revlist"
  /\ \E fault \in BOOLEAN :
       /\ Ran("rev-list", Rc(FALSE, fault), fault)
       /\ IF Raises(Rc(FALSE, fault), FALSE)
          THEN Abort("CommandFailed") /\ UNCHANGED calls
          ELSE IF RevList(root_sha1, head[Root]) = << >>
          THEN Exit(MainExit(SnapshotReturn)) /\ UNCHANGED calls
          ELSE Continue("deps_fetch") /\ calls' = calls \cup {"_MergeProjects"}
  /\ UNCHANGED <<inputs, root_sha1, webview_licenses,
                 directories_left_over, resolver, loops, machine,
                 refs, index, history, check>>

----------------------------------------------------------------------------
(* _MergeProjects: the manifest *)

\* _ReadGitFile, lines 108-109
ReadGitFile_fetch ==
  /\ pc = "deps_fetch"
  /\ \E fault \in BOOLEAN :
       /\ Ran("fetch", Rc(FALSE, fault), fault)
       /\ IF Raises(Rc(FALSE, fault), FALSE) THEN Abort("CommandFailed")
          ELSE Continue("deps_show")
  /\ UNCHANGED data

\* _ReadGitFile, lines 111-112
ReadGitFile_show ==
  /\ pc = "deps_show"
  /\ \E fault \in BOOLEAN :
       /\ Ran("show", Rc(FALSE, fault), fault)
       /\ IF Raises(Rc(FALSE, fault), FALSE) THEN Abort("CommandFailed")
          ELSE Continue("deps_exec")
  /\ UNCHANGED data

\* _ParseDEPS, lines 147-152: exec of the manifest; Var of an undefined name raises
ParseDEPS ==
  /\ pc = "deps_exec"
  /\ \/ /\ Abort("VarNotDefined")
        /\ UNCHANGED deps_vars
     \/ /\ Continue("resolve")
        /\ deps_vars' \in ManifestPool
  /\ UNCHANGED <<lastCmd, faults, inputs, driver, third_party_projects, merge_info,
                 loops, machine, refs, index, history, check>>

\* _MergeProjects, line 240
Resolve ==
  /\ pc = "resolve"
  /\ merge_info' = GetThirdPartyProjectMergeInfo(third_party_projects, deps_vars)
  /\ IF merge_info'.status # "ok"
     THEN Abort(merge_info'.status) /\ UNCHANGED remaining
     ELSE Continue("sub_next") /\ remaining' = DOMAIN merge_info'.info
  /\ UNCHANGED <<lastCmd, faults, inputs, driver, third_party_projects, deps_vars,
                 cwd, idx, machine, refs, index, history, check>>

----------------------------------------------------------------------------
(* _MergeProjects: the sub-projects, then the root *)

\* a faulty variant of MergeProjects_loop: the root may be taken up while
\* sub-projects are left
MergeProjects_loop_eager ==
  /\ pc = "sub_next"
  /\ \/ /\ Continue("root_checkout")
        /\ cwd' = Root
        /\ UNCHANGED <<remaining, phase>>
     \/ \E path \in remaining :
          /\ Continue("sub_checkout")
          /\ cwd' = path
          /\ remaining' = remaining \ {path}
          /\ phase' = [phase EXCEPT ![path] = "Start"]
  /\ commit_message' = NoMsg
  /\ prompts' = 0
  /\ replied' = FALSE
  /\ new_commit_message' = ""
  /\ reported' = {}
  /\ UNCHANGED <<excluded, lastCmd, faults, inputs, driver, resolver, idx, newHistory,
                 attempts, refs, index, history>>

\* line 242: the next key of merge_info, in the dictionary's order; after the
\* last one the root repository is handled (line 262). The locals of the
\* last call of _CheckNoConflictsAndCommitMerge are gone
MergeProjects_loop ==
  /\ pc = "sub_next"
  /\ IF remaining = {}
     THEN /\ Continue("root_checkout")
          /\ cwd' = Root
          /\ UNCHANGED <<remaining, phase>>
     ELSE \E path \in remaining :
            /\ Continue("sub_checkout")
            /\ cwd' = path
            /\ remaining' = remaining \ {path}
            /\ phase' = [phase EXCEPT ![path] = "Start"]
  /\ commit_message' = NoMsg
  /\ prompts' = 0
  /\ replied' = FALSE
  /\ new_commit_message' = ""
  /\ reported' = {}
  /\ UNCHANGED <<excluded, lastCmd, faults, inputs, driver, resolver, idx, newHistory,
                 attempts, refs, index, history>>

\* lines 246-247 and 263-264: git checkout -b merge-from-chromium -t
\* goog/master-chromium; git refuses to create a branch that exists
Checkout(next) ==
  /\ \E fault \in (IF branch[cwd] THEN {FALSE} ELSE BOOLEAN) :
       /\ Ran("checkout", Rc(branch[cwd], fault), fault)
       /\ IF Raises(Rc(branch[cwd], fault), FALSE)
          THEN Abort(IF branch[cwd] THEN "BranchExists" ELSE "CommandFailed")
               /\ UNCHANGED <<refs, phase>>
          ELSE /\ Continue(next)
               /\ branch' = [branch EXCEPT ![cwd] = TRUE]
               /\ head' = [head EXCEPT ![cwd] = goog[cwd]]
               /\ phase' = [phase EXCEPT ![cwd] = "Fetch"]
               /\ UNCHANGED goog
  /\ UNCHANGED <<excluded, inputs, driver, resolver, loops, newHistory, attempts, index,
                 history, check>>

MergeProjects_checkout ==
  /\ pc = "sub_checkout"
  /\ Checkout("sub_fetch")

\* line 249 and line 266: git fetch
Fetch(next, nextPhase) ==
  /\ \E fault \in BOOLEAN :
       /\ Ran("fetch", Rc(FALSE, fault), fault)
       /\ IF Raises(Rc(FALSE, fault), FALSE)
          THEN Abort("CommandFailed") /\ UNCHANGED phase
          ELSE Continue(next) /\ phase' = [phase EXCEPT ![cwd] = nextPhase]
  /\ UNCHANGED <<excluded, inputs, driver, resolver, loops, newHistory, attempts, refs,
                 index, history, check>>

MergeProjects_fetch ==
  /\ pc = "sub_fetch"
  /\ Fetch("sub_revlist", "Diff-check")

\* lines 250-260: git rev-list -1 HEAD..sha1; git fails on a name that is no
\* revision; empty output skips the project
MergeProjects_revlist ==
  /\ pc = "sub_revlist"
  /\ LET sha1 == merge_info.info[cwd].sha1
         unknown == ShaToRev(sha1) = 0
     IN \E fault \in (IF unknown THEN {FALSE} ELSE BOOLEAN) :
          /\ Ran("rev-list", Rc(unknown, fault), fault)
          /\ IF Raises(Rc(unknown, fault), FALSE)
             THEN /\ Abort(IF unknown THEN "BadRevision" ELSE "CommandFailed")
                  /\ UNCHANGED <<phase, newHistory>>
             ELSE /\ newHistory' = [newHistory EXCEPT ![cwd] =
                       IF RevList(ShaToRev(sha1), head[cwd]) # << >> THEN "yes" ELSE "no"]
                  /\ IF NewCommits(RevList(ShaToRev(sha1), head[cwd]))
                     THEN /\ Continue("sub_merge")
                          /\ phase' = [phase EXCEPT ![cwd] = "Merge-attempt"]
                     ELSE /\ Continue("sub_next")
                          /\ phase' = [phase EXCEPT ![cwd] = "Skip"]
  /\ UNCHANGED <<excluded, inputs, driver, resolver, loops, attempts, refs, index, history,
                 check>>

\* lines 254-258 and 269-273: git merge --no-commit with ignore_errors=True,
\* then the call of _CheckNoConflictsAndCommitMerge with the generated message.
\* The merge is up to date (nothing happens), clean, conflicting or it fails.
Merge(target, message) ==
  /\ attempts' = [attempts EXCEPT ![cwd] = TRUE]
  /\ phase' = [phase EXCEPT ![cwd] = "Conflict-resolution"]
  /\ commit_message' = message
  /\ prompts' = 0
  /\ replied' = FALSE
  /\ new_commit_message' = ""
  /\ reported' = {}
  /\ \/ /\ target <= head[cwd]
        /\ Ran("merge", 0, FALSE)
        /\ UNCHANGED index
     \/ /\ target > head[cwd]
        /\ Ran("merge", 0, FALSE)
        /\ merging' = [merging EXCEPT ![cwd] = target]
        /\ staged' = [staged EXCEPT ![cwd] = TRUE]
        /\ tracked' = [tracked EXCEPT ![cwd] = @ \cup UpstreamFiles(cwd)]
        /\ UNCHANGED status
     \/ /\ target > head[cwd]
        /\ \E st \in ConflictStatuses(UpstreamFiles(cwd)) \ {{}} :
             /\ Ran("merge", 1, FALSE)
             /\ merging' = [merging EXCEPT ![cwd] = target]
             /\ staged' = [staged EXCEPT ![cwd] = TRUE]
             /\ status' = [status EXCEPT ![cwd] = st]
             /\ tracked' = [tracked EXCEPT ![cwd] = @ \cup UpstreamFiles(cwd)]
     \/ /\ Ran("merge", 1, TRUE)
        /\ UNCHANGED index
  /\ IF Raises(lastCmd'.rc, TRUE) THEN Abort("CommandFailed")
     ELSE Continue("chk_status1")
  /\ UNCHANGED <<excluded, inputs, driver, resolver, loops, newHistory, refs, history>>

MergeProjects_merge ==
  /\ pc = "sub_merge"
  /\ Merge(ShaToRev(merge_info.info[cwd].sha1),
           ToolMsg(cwd, merge_info.info[cwd].url, merge_info.info[cwd].sha1))

MergeProjects_rootCheckout ==
  /\ pc = "root_checkout"
  /\ Checkout("root_fetch")

MergeProjects_rootFetch ==
  /\ pc = "root_fetch"
  /\ Fetch("root_merge", "Merge-attempt")

MergeProjects_rootMerge ==
  /\ pc = "root_merge"
  /\ Merge(root_sha1, ToolMsg(Root, << >>, RevToSha(root_sha1)))

----------------------------------------------------------------------------
(* _CheckNoConflictsAndCommitMerge *)

\* lines 196-200: the first status; files deleted by us are given to git rm
CheckNoConflictsAndCommitMerge_status ==
  /\ pc = "chk_status1"
  /\ \E fault \in BOOLEAN :
       /\ Ran("status", Rc(FALSE, fault), fault)
       /\ IF Raises(Rc(FALSE, fault), FALSE)
          THEN Abort("CommandFailed") /\ UNCHANGED reported
          ELSE /\ reported' = status[cwd]
               /\ IF FilesWith(status[cwd], DeletedByUs) # {} THEN Continue("chk_rm")
                  ELSE Continue("chk_status2")
  /\ UNCHANGED <<inputs, driver, resolver, loops, machine, refs, index, history,
                 commit_message, prompts, new_commit_message, replied>>

\* lines 203-204: git rm -rf --ignore-unmatch of the files deleted by us
CheckNoConflictsAndCommitMerge_rm ==
  /\ pc = "chk_rm"
  /\ \E fault \in BOOLEAN :
       /\ Ran("rm", Rc(FALSE, fault), fault)
       /\ IF Raises(Rc(FALSE, fault), FALSE)
          THEN Abort("CommandFailed") /\ UNCHANGED index
          ELSE /\ Continue("chk_status2")
               /\ LET conflicts_deleted_by_us == FilesWith(status[cwd], DeletedByUs)
                  IN /\ status' = [status EXCEPT ![cwd] =
                                     {e \in @ : e[2] \notin conflicts_deleted_by_us}]
                     /\ tracked' = [tracked EXCEPT ![cwd] = @ \ conflicts_deleted_by_us]
               /\ UNCHANGED <<merging, staged>>
  /\ UNCHANGED <<inputs, driver, resolver, loops, machine, refs, history, check>>

\* lines 206-211: the status of the loop; no conflict left ends the loop
CheckNoConflictsAndCommitMerge_loop ==
  /\ pc = "chk_status2"
  /\ \E fault \in BOOLEAN :
       /\ Ran("status", Rc(FALSE, fault), fault)
       /\ IF Raises(Rc(FALSE, fault), FALSE) THEN Abort("CommandFailed")
          ELSE IF FilesWith(status[cwd], ConflictMarkers) = {} THEN Continue("chk_commit")
          ELSE Continue("chk_prompt")
  /\ UNCHANGED data

\* a faulty variant of NextMessage: only the first reply is kept
NextMessage_first(message, reply) ==
  IF reply # "" /\ message.by # "operator" THEN OperatorMsg(reply) ELSE message

\* lines 217-218: a non-empty reply replaces the commit message
NextMessage(message, reply) == IF reply # "" THEN OperatorMsg(reply) ELSE message

\* lines 212-218: raw_input; meanwhile the operator resolves some conflicts
\* (all that are left, in the last round the model allows)
CheckNoConflictsAndCommitMerge_prompt ==
  /\ pc = "chk_prompt"
  /\ prompts < MaxPrompts
  /\ \E reply \in {""} \cup OperatorMsgs,
        left \in (IF prompts + 1 = MaxPrompts THEN {{}} ELSE SUBSET status[cwd]) :
       /\ status' = [status EXCEPT ![cwd] = left]
       /\ new_commit_message' = reply
       /\ commit_message' = NextMessage(commit_message, reply)
       /\ replied' = (replied \/ reply # "")
  /\ prompts' = prompts + 1
  /\ UNCHANGED reported
  /\ Continue("chk_status2")
  /\ UNCHANGED <<lastCmd, faults, inputs, driver, resolver, loops, machine, refs,
                 merging, staged, tracked, history>>

\* line 219: git commit -m; git refuses a commit of nothing. Back in
\* _MergeProjects the loop goes on, or after the root the import follows
CheckNoConflictsAndCommitMerge_commit ==
  /\ pc = "chk_commit"
  /\ LET nothing == merging[cwd] = 0 /\ ~staged[cwd]
     IN \E fault \in (IF nothing THEN {FALSE} ELSE BOOLEAN) :
          /\ RanCommit(commit_message, Rc(nothing, fault), fault)
          /\ IF Raises(Rc(nothing, fault), FALSE)
             THEN /\ Abort(IF nothing THEN "NothingToCommit" ELSE "CommandFailed")
                  /\ UNCHANGED <<phase, head, merging, staged, history>>
             ELSE /\ Continue(IF cwd = Root THEN "import" ELSE "sub_next")
                  /\ phase' = [phase EXCEPT ![cwd] = "Merged"]
                  /\ head' = [head EXCEPT ![cwd] =
                                IF merging[cwd] > @ THEN merging[cwd] ELSE @]
                  /\ merging' = [merging EXCEPT ![cwd] = 0]
                  /\ staged' = [staged EXCEPT ![cwd] = FALSE]
                  /\ commits' = [commits EXCEPT ![cwd] =
                                   Append(@, "merge")]
  /\ UNCHANGED <<excluded, inputs, driver, resolver, loops, newHistory, attempts, goog,
                 branch, status, tracked, check>>

----------------------------------------------------------------------------
(* _MergeProjects: exclusions and the license scan *)

\* a faulty variant of MergeProjects_import: without the global statement
\* of line 282 the import binds a local name
MergeProjects_import_local ==
  /\ pc = "import"
  /\ \/ /\ Abort("ImportError")
        /\ UNCHANGED remaining
     \/ /\ Continue("excl_next")
        /\ remaining' = DOMAIN KNOWN_INCOMPATIBLE
  /\ commit_message' = NoMsg
  /\ prompts' = 0
  /\ replied' = FALSE
  /\ new_commit_message' = ""
  /\ reported' = {}
  /\ UNCHANGED <<lastCmd, faults, inputs, driver, resolver, cwd, idx, machine,
                 refs, index, history>>

\* lines 280-286: the imports from the merged tree, then the first item of
\* KNOWN_INCOMPATIBLE
MergeProjects_import ==
  /\ pc = "import"
  /\ \/ /\ Abort("ImportError")
        /\ UNCHANGED <<webview_licenses, remaining>>
     \/ /\ Continue("excl_next")
        /\ webview_licenses' = "module"
        /\ remaining' = DOMAIN KNOWN_INCOMPATIBLE
  /\ commit_message' = NoMsg
  /\ prompts' = 0
  /\ replied' = FALSE
  /\ new_commit_message' = ""
  /\ reported' = {}
  /\ UNCHANGED <<lastCmd, faults, inputs, root_sha1, calls, directories_left_over,
                 resolver, cwd, idx, machine, refs, index, history>>

\* line 286: the next item, in the dictionary's order; after the last one the
\* scan of line 295
MergeProjects_exclusions ==
  /\ pc = "excl_next"
  /\ IF remaining = {}
     THEN Continue("scanner") /\ UNCHANGED <<remaining, cwd>>
     ELSE \E path \in remaining :
            /\ Continue("excl_rm")
            /\ cwd' = path
            /\ remaining' = remaining \ {path}
  /\ UNCHANGED <<lastCmd, faults, inputs, driver, resolver, idx, machine, refs,
                 index, history, check>>

\* a faulty variant of Removed: only the first pathspec is given to git rm
Removed_first(files, exclude_list) ==
  {f \in files : exclude_list # << >> /\ Matches(exclude_list[1], f)}

\* the files git rm -rf --ignore-unmatch takes out of the index
Removed(files, exclude_list) == {f \in files : MatchesAny(exclude_list, f)}

\* lines 289-290
MergeProjects_rm ==
  /\ pc = "excl_rm"
  /\ \E fault \in BOOLEAN :
       /\ Ran("rm", Rc(FALSE, fault), fault)
       /\ IF Raises(Rc(FALSE, fault), FALSE)
          THEN Abort("CommandFailed") /\ UNCHANGED <<index, excluded>>
          ELSE /\ Continue("excl_status")
               /\ excluded' = excluded \cup {cwd}
               /\ LET gone == Removed(tracked[cwd], KNOWN_INCOMPATIBLE[cwd])
                  IN /\ tracked' = [tracked EXCEPT ![cwd] = @ \ gone]
                     /\ staged' = [staged EXCEPT ![cwd] = @ \/ gone # {}]
               /\ UNCHANGED <<merging, status>>
  /\ UNCHANGED <<inputs, driver, resolver, loops, phase, newHistory, attempts, refs, history, check>>

\* a faulty variant of MergeProjects_modified: the commit is tried whatever
\* the index holds
MergeProjects_modified_always ==
  /\ pc = "excl_status"
  /\ \E fault \in BOOLEAN :
       /\ Ran("status", Rc(FALSE, fault), fault)
       /\ IF Raises(Rc(FALSE, fault), FALSE) THEN Abort("CommandFailed")
          ELSE Continue("excl_commit")
  /\ UNCHANGED data

\* _ModifiedFilesInIndex, lines 344-345, as called at line 291
MergeProjects_modified ==
  /\ pc = "excl_status"
  /\ \E fault \in BOOLEAN :
       /\ Ran("status", Rc(FALSE, fault), fault)
       /\ IF Raises(Rc(FALSE, fault), FALSE) THEN Abort("CommandFailed")
          ELSE IF staged[cwd] THEN Continue("excl_commit")
          ELSE Continue("excl_next")
  /\ UNCHANGED data

\* a git commit -m outside a merge: git refuses a commit of nothing
Commit(kind, message, next) ==
  /\ \E fault \in (IF staged[cwd] THEN BOOLEAN ELSE {FALSE}) :
       /\ RanCommit(message, Rc(~staged[cwd], fault), fault)
       /\ IF Raises(Rc(~staged[cwd], fault), FALSE)
          THEN /\ Abort(IF staged[cwd] THEN "CommandFailed" ELSE "NothingToCommit")
               /\ UNCHANGED <<staged, history>>
          ELSE /\ Continue(next)
               /\ staged' = [staged EXCEPT ![cwd] = FALSE]
               /\ commits' = [commits EXCEPT ![cwd] =
                                Append(@, kind)]
  /\ UNCHANGED <<inputs, driver, resolver, loops, machine, refs, merging, status,
                 tracked, check>>

\* lines 292-293
MergeProjects_commit ==
  /\ pc = "excl_commit"
  /\ Commit("exclude",
            [by |-> "tool", text |-> "Exclude incompatible directories",
             path |-> cwd, url |-> << >>, sha1 |-> << >>],
            "excl_next")

\* a faulty variant of LeftOverIsFatal: the list is not looked at
LeftOverIsFatal_never(left_over) == FALSE

\* line 296: a non-empty list of directories is an error
LeftOverIsFatal(left_over) == left_over # "empty"

\* lines 295-299: the license scan; leftovers raise, else True is returned
\* and _Snapshot goes on to _GenerateNoticeFile
MergeProjects_scan ==
  /\ pc = "scanner"
  /\ IF webview_licenses = "None"
     THEN Abort("AttributeError") /\ UNCHANGED <<calls, directories_left_over>>
     ELSE /\ calls' = calls \cup {"GetIncompatibleDirectories"}
          /\ \E left_over \in {"empty", "some"} :
               /\ directories_left_over' = left_over
               /\ IF LeftOverIsFatal(left_over) THEN Abort("IncompatibleLicense")
                  ELSE Continue("notice_gen")
  /\ UNCHANGED <<lastCmd, faults, inputs, root_sha1, webview_licenses, resolver,
                 loops, machine, refs, index, history, check>>

----------------------------------------------------------------------------
(* _GenerateNoticeFile *)

\* lines 358-361: the notice text from the late-bound module, written to NOTICE
GenerateNoticeFile ==
  /\ pc = "notice_gen"
  /\ IF webview_licenses = "None"
     THEN Abort("AttributeError") /\ UNCHANGED <<calls, cwd>>
     ELSE /\ Continue("notice_add")
          /\ calls' = calls \cup {"_GenerateNoticeFile", "GenerateNoticeFile"}
          /\ cwd' = Root
  /\ UNCHANGED <<lastCmd, faults, inputs, root_sha1, webview_licenses,
                 directories_left_over, resolver,
                 remaining, idx, machine, refs, index, history, check>>

\* line 362: git add NOTICE; the text may be the one already committed
GenerateNoticeFile_add ==
  /\ pc = "notice_add"
  /\ \E fault \in BOOLEAN :
       /\ Ran("add", Rc(FALSE, fault), fault)
       /\ IF Raises(Rc(FALSE, fault), FALSE)
          THEN Abort("CommandFailed") /\ UNCHANGED index
          ELSE /\ Continue("notice_status")
               /\ \E changed \in BOOLEAN :
                    staged' = [staged EXCEPT ![Root] = @ \/ changed]
               /\ tracked' = [tracked EXCEPT ![Root] = @ \cup {<<"NOTICE">>}]
               /\ UNCHANGED <<merging, status>>
  /\ UNCHANGED <<inputs, driver, resolver, loops, machine, refs, history, check>>

\* _ModifiedFilesInIndex, lines 344-345, as called at line 364; without a
\* commit _Snapshot goes on to _GenerateMakefiles
GenerateNoticeFile_modified ==
  /\ pc = "notice_status"
  /\ \E fault \in BOOLEAN :
       /\ Ran("status", Rc(FALSE, fault), fault)
       /\ IF Raises(Rc(FALSE, fault), FALSE) THEN Abort("CommandFailed")
          ELSE IF staged[cwd] THEN Continue("notice_commit")
          ELSE Continue("mk_start")
  /\ UNCHANGED data

\* lines 365-368
GenerateNoticeFile_commit ==
  /\ pc = "notice_commit"
  /\ Commit("notice", ToolMsg(Root, << >>, << >>), "mk_start")

----------------------------------------------------------------------------
(* _GenerateMakefiles *)

\* line 307: the function is entered; its first loop starts
GenerateMakefiles ==
  /\ pc = "mk_start"
  /\ Continue("mk_rm")
  /\ calls' = calls \cup {"_GenerateMakefiles"}
  /\ idx' = 1
  /\ cwd' = ALL_PROJECTS[1]
  /\ UNCHANGED <<lastCmd, faults, inputs, root_sha1, webview_licenses,
                 directories_left_over, resolver,
                 remaining, machine, refs, index, history, check>>

\* lines 312-315: git rm --ignore-unmatch of the generated files, per
\* project; the files of the last snapshot are tracked, their removal is staged
GenerateMakefiles_rm ==
  /\ pc = "mk_rm"
  /\ \E fault \in BOOLEAN :
       /\ Ran("rm", Rc(FALSE, fault), fault)
       /\ IF Raises(Rc(FALSE, fault), FALSE)
          THEN Abort("CommandFailed") /\ UNCHANGED <<staged, idx, cwd>>
          ELSE /\ staged' = [staged EXCEPT ![cwd] = TRUE]
               /\ IF idx < Len(ALL_PROJECTS)
                  THEN /\ Continue("mk_rm")
                       /\ idx' = idx + 1
                       /\ cwd' = ALL_PROJECTS[idx + 1]
                  ELSE /\ Continue("mk_gyp")
                       /\ UNCHANGED <<idx, cwd>>
  /\ UNCHANGED <<inputs, driver, resolver, remaining, machine, refs, merging,
                 status, tracked, history, check>>

\* lines 317-321: android_gyp; then the second loop starts
GenerateMakefiles_gyp ==
  /\ pc = "mk_gyp"
  /\ \E fault \in BOOLEAN :
       /\ Ran("bash", Rc(FALSE, fault), fault)
       /\ IF Raises(Rc(FALSE, fault), FALSE)
          THEN Abort("CommandFailed") /\ UNCHANGED <<idx, cwd>>
          ELSE /\ Continue("mk_add")
               /\ idx' = 1
               /\ cwd' = ALL_PROJECTS[1]
  /\ UNCHANGED <<inputs, driver, resolver, remaining, machine, refs, index,
                 history, check>>

\* the loop at line 323 goes on to the next project or the function returns:
\* _Snapshot falls off its end and main returns
MakefilesNext ==
  IF idx < Len(ALL_PROJECTS)
  THEN /\ Continue("mk_add")
       /\ idx' = idx + 1
       /\ cwd' = ALL_PROJECTS[idx + 1]
  ELSE /\ Exit(MainExit(SnapshotReturn))
       /\ UNCHANGED <<idx, cwd>>

\* lines 326-333: four git add -f with ignore_errors=True; the index then
\* holds the regenerated files, which may equal the committed ones
GenerateMakefiles_add ==
  /\ pc = "mk_add"
  /\ \E rc \in {0, 1} : Ran("add", rc, FALSE)
  /\ \E modified \in BOOLEAN : staged' = [staged EXCEPT ![cwd] = modified]
  /\ IF Raises(lastCmd'.rc, TRUE) THEN Abort("CommandFailed")
     ELSE Continue("mk_status")
  /\ UNCHANGED <<inputs, driver, resolver, loops, machine, refs, merging, status,
                 tracked, history, check>>

\* _ModifiedFilesInIndex, lines 344-345, as called at line 335
GenerateMakefiles_modified ==
  /\ pc = "mk_status"
  /\ \E fault \in BOOLEAN :
       /\ Ran("status", Rc(FALSE, fault), fault)
       /\ IF Raises(Rc(FALSE, fault), FALSE)
          THEN Abort("CommandFailed") /\ UNCHANGED <<idx, cwd>>
          ELSE IF staged[cwd] THEN Continue("mk_commit") /\ UNCHANGED <<idx, cwd>>
          ELSE MakefilesNext
  /\ UNCHANGED <<inputs, driver, resolver, remaining, machine, refs, index,
                 history, check>>

\* lines 336-338
GenerateMakefiles_commit ==
  /\ pc = "mk_commit"
  /\ \E fault \in BOOLEAN :
       /\ RanCommit(ToolMsg(cwd, << >>, << >>), Rc(FALSE, fault), fault)
       /\ IF Raises(Rc(FALSE, fault), FALSE)
          THEN /\ Abort("CommandFailed")
               /\ UNCHANGED <<staged, history, idx, cwd>>
          ELSE /\ MakefilesNext
               /\ staged' = [staged EXCEPT ![cwd] = FALSE]
               /\ commits' = [commits EXCEPT ![cwd] =
                                Append(@, "makefiles")]
  /\ UNCHANGED <<inputs, driver, resolver, remaining, machine, refs, merging,
                 status, tracked, check>>

----------------------------------------------------------------------------
(* The script is run again, lines 457-458, after an invocation whose      *)
(* _Snapshot returned; upstream may have moved on                         *)

NextInvocation ==
  /\ pc = "done"
  /\ "_Snapshot" \in calls
  /\ run = 1
  /\ run' = 2
  /\ pc' = "main"
  /\ args' \in BOOLEAN
  /\ envMarker' \in BOOLEAN
  /\ svn_revision' \in 0..MaxRev
  /\ upstream' \in upstream..MaxRev
  /\ prev' = [calls |-> calls, upstream |-> upstream,
              svn_revision |-> svn_revision,
              merged |-> [r \in Repos |-> IF phase[r] = "Merged" THEN head[r] ELSE 0]]
  /\ exitCode' = -1
  /\ error' = "none"
  /\ faults' = FALSE
  /\ lastCmd' = NoCmd
  /\ root_sha1' = 0
  /\ calls' = {}
  /\ webview_licenses' = "None"
  /\ directories_left_over' = "unknown"
  /\ deps_vars' = EmptyDeps
  /\ merge_info' = NotResolved
  /\ remaining' = {}
  /\ cwd' = Root
  /\ idx' = 0
  /\ phase' = Idle
  /\ newHistory' = Unknown
  /\ attempts' = NoAttempts
  /\ excluded' = {}
  /\ commit_message' = NoMsg
  /\ prompts' = 0
  /\ replied' = FALSE
  /\ new_commit_message' = ""
  /\ reported' = {}
  /\ commits' = [r \in Repos |-> << >>]
  /\ UNCHANGED <<third_party_projects, refs, index>>

Next ==
  \/ main
  \/ GetSVNRevisionAndSHA1_fetch
  \/ GetSVNRevisionAndSHA1_log
  \/ Snapshot_revlist
  \/ ReadGitFile_fetch
  \/ ReadGitFile_show
  \/ ParseDEPS
  \/ Resolve
  \/ MergeProjects_loop
  \/ MergeProjects_checkout
  \/ MergeProjects_fetch
  \/ MergeProjects_revlist
  \/ MergeProjects_merge
  \/ MergeProjects_rootCheckout
  \/ MergeProjects_rootFetch
  \/ MergeProjects_rootMerge
  \/ CheckNoConflictsAndCommitMerge_status
  \/ CheckNoConflictsAndCommitMerge_rm
  \/ CheckNoConflictsAndCommitMerge_loop
  \/ CheckNoConflictsAndCommitMerge_prompt
  \/ CheckNoConflictsAndCommitMerge_commit
  \/ MergeProjects_import
  \/ MergeProjects_exclusions
  \/ MergeProjects_rm
  \/ MergeProjects_modified
  \/ MergeProjects_commit
  \/ MergeProjects_scan
  \/ GenerateNoticeFile
  \/ GenerateNoticeFile_add
  \/ GenerateNoticeFile_modified
  \/ GenerateNoticeFile_commit
  \/ GenerateMakefiles
  \/ GenerateMakefiles_rm
  \/ GenerateMakefiles_gyp
  \/ GenerateMakefiles_add
  \/ GenerateMakefiles_modified
  \/ GenerateMakefiles_commit
  \/ NextInvocation

Spec == Init /\ [][Next]_vars

----------------------------------------------------------------------------
(* Properties of main and _Snapshot, under Spec *)

NoStepFailed == ~faults /\ error = "none"
SnapshotCompleted ==
  /\ pc = "done"
  /\ {"_Snapshot", "_MergeProjects", "_GenerateNoticeFile", "_GenerateMakefiles"} \subseteq calls

\* C1: when main is invoked without positional arguments, the environment
\* marker is present and the snapshot (merge, notice, makefiles) completes
\* without any step failing, the exit code is 0
C1_SuccessExitsZero ==
  (~args /\ envMarker /\ SnapshotCompleted /\ NoStepFailed) => exitCode = 0

NothingNewUpstream ==
  /\ run = 2
  /\ ~args
  /\ envMarker
  /\ upstream = prev.upstream
  /\ svn_revision = prev.svn_revision

\* what the second of two invocations does when nothing new is upstream: no
\* orchestrator, no notice, no makefiles, no commit anywhere
SecondCallDoesNothing ==
  NothingNewUpstream =>
    /\ calls \cap {"_MergeProjects", "_GenerateNoticeFile", "_GenerateMakefiles"} = {}
    /\ \A r \in Repos : commits[r] = << >>

\* C2: the second of two invocations in succession, with no new upstream
\* history in between, is a no-op: no orchestrator, no notice, no makefiles,
\* no commit in any repository, and it ends with a success exit
C2_SecondCallNoOp ==
  /\ SecondCallDoesNothing
  /\ (NothingNewUpstream /\ pc = "done") => exitCode = 0
  /\ (NothingNewUpstream /\ pc = "raised") => faults

----------------------------------------------------------------------------
(* The Revision Resolver on its own: _GetThirdPartyProjectMergeInfo applied *)
(* to bounded manifests                                                    *)

Keys == {DepsKey(p) : p \in Paths}

\* the entries the lookup inputs are built from: None, two entries that
\* differ, and one without '@'
LookupValues == {None, Str(<<"u", "@", "1">>), Str(<<"1", "@", "u">>), Str(<<"u">>)}

Sources(values) == UNION {[D -> values] : D \in SUBSET Keys}

ProjectLists == {<<"googleurl">>, <<"googleurl", "v8">>, <<"v8", "googleurl">>}

\* every manifest over LookupValues, for the search order and the errors
InitLookup ==
  /\ third_party_projects \in ProjectLists
  /\ deps_vars \in [deps : Sources(LookupValues), unix : Sources(LookupValues),
                    android : Sources(LookupValues)]

\* one project whose entry is any value: every string up to MaxEntryLen,
\* None, a From object
InitSplit ==
  /\ third_party_projects = <<"googleurl">>
  /\ \E v \in {Str(x) : x \in Strings} \cup {None, FromObj} :
       deps_vars = [deps |-> (DepsKey("googleurl") :> v), unix |-> << >>,
                    android |-> << >>]

InitResolve ==
  /\ pc = "resolve"
  /\ run = 1
  /\ args = FALSE
  /\ envMarker = TRUE
  /\ svn_revision = 0
  /\ upstream = 1
  /\ prev = NoPrev
  /\ exitCode = -1
  /\ error = "none"
  /\ faults = FALSE
  /\ lastCmd = NoCmd
  /\ root_sha1 = 1
  /\ calls = {"_Snapshot", "_MergeProjects"}
  /\ webview_licenses = "None"
  /\ directories_left_over = "unknown"
  /\ merge_info = NotResolved
  /\ remaining = {}
  /\ cwd = Root
  /\ idx = 0
  /\ phase = Idle
  /\ newHistory = Unknown
  /\ attempts = NoAttempts
  /\ excluded = {}
  /\ commit_message = NoMsg
  /\ prompts = 0
  /\ replied = FALSE
  /\ new_commit_message = ""
  /\ reported = {}
  /\ goog = [r \in Repos |-> IF r = Root THEN 0 ELSE 1]
  /\ head = goog
  /\ branch = [r \in Repos |-> FALSE]
  /\ merging = [r \in Repos |-> 0]
  /\ staged = [r \in Repos |-> FALSE]
  /\ status = [r \in Repos |-> {}]
  /\ tracked = [r \in Repos |-> {<<"base", "a.cc">>}]
  /\ commits = [r \in Repos |-> << >>]
  /\ (InitLookup \/ InitSplit)

NextResolve == Resolve

SpecResolve == InitResolve /\ [][NextResolve]_vars

----------------------------------------------------------------------------
(* Properties of the Revision Resolver, under SpecResolve *)

Requested == {third_party_projects[i] : i \in DOMAIN third_party_projects}
SourceOrder == <<deps_vars.deps, deps_vars.unix, deps_vars.android>>
EntryAt(i, path) ==
  IF DepsKey(path) \in DOMAIN SourceOrder[i] THEN SourceOrder[i][DepsKey(path)]
  ELSE None
Contains(i, path) == DepsKey(path) \in DOMAIN SourceOrder[i]
NonEmpty(i, path) == Contains(i, path) /\ Truthy(EntryAt(i, path))
AbsentEverywhere(path) == \A i \in 1..3 : ~Contains(i, path)
Usable(path) == \E i \in 1..3 : NonEmpty(i, path)
FirstNonEmpty(path) ==
  EntryAt(CHOOSE i \in 1..3 : NonEmpty(i, path) /\ \A j \in 1..(i - 1) : ~NonEmpty(j, path),
          path)
\* the entry is a string with an '@' on its first line
Splittable(v) ==
  /\ v.kind = "str"
  /\ \E i \in 1..Len(v.s) : v.s[i] = "@" /\ \A j \in 1..(i - 1) : v.s[j] # NL
WellFormed(path) == Usable(path) /\ Splittable(FirstNonEmpty(path))
InfoOf(v) == [url |-> re_match(v.s).group1, sha1 |-> re_match(v.s).group2]
Resolved == pc # "resolve" /\ merge_info.status = "ok"

\* C3, as claimed: every requested path resolves to the entry of the first
\* of deps, deps_os['unix'], deps_os['android'] that contains an entry for it
C3_FirstContainingWins ==
  Resolved =>
    \A p \in Requested :
      \E i \in 1..3 :
        /\ Contains(i, p)
        /\ \A j \in 1..(i - 1) : ~Contains(j, p)
        /\ merge_info.info[p] = InfoOf(EntryAt(i, p))

\* C3, amended: every requested path resolves to the entry of the first of
\* deps, deps_os['unix'], deps_os['android'] whose entry for it is non-empty
\* (an entry that is None or '' is passed over); with non-empty entries in
\* deps and in deps_os['android'] the deps entry is the one returned
C3_FirstNonEmptyWins ==
  Resolved =>
    \A p \in Requested :
      \E i \in 1..3 :
        /\ NonEmpty(i, p)
        /\ \A j \in 1..(i - 1) : ~NonEmpty(j, p)
        /\ merge_info.info[p] = InfoOf(EntryAt(i, p))

C3_Witness ==
  /\ Resolved
  /\ \E p \in Requested :
       /\ NonEmpty(1, p)
       /\ NonEmpty(3, p)
       /\ EntryAt(1, p) # EntryAt(3, p)
       /\ merge_info.info[p] = InfoOf(EntryAt(1, p))
       /\ merge_info.info[p] # InfoOf(EntryAt(3, p))

\* C4, as claimed: for every requested path absent from all three sources
\* the resolution fails with the missing-dependency error naming that path
\* and returns no mapping
C4_AbsentPathNamed ==
  pc # "resolve" =>
    \A p \in Requested :
      AbsentEverywhere(p) =>
        /\ merge_info.status = "RuntimeError"
        /\ merge_info.path = p
        /\ merge_info.info = NoInfo

\* C4, amended: if a requested path is absent from all three sources the
\* resolution fails, returns no mapping and starts no merge; the error is
\* the missing-dependency error naming that path when every path requested
\* before it resolved to a well-formed entry
C4_AbsentPathFails ==
  pc # "resolve" =>
    \A i \in DOMAIN third_party_projects :
      AbsentEverywhere(third_party_projects[i]) =>
        /\ pc = "raised"
        /\ exitCode = 1
        /\ merge_info.status # "ok"
        /\ merge_info.info = NoInfo
        /\ phase = Idle
        /\ (\A j \in 1..(i - 1) : WellFormed(third_party_projects[j])) =>
             /\ merge_info.status = "RuntimeError"
             /\ error = "RuntimeError"
             /\ merge_info.path = third_party_projects[i]

C4_Witness ==
  /\ pc = "raised"
  /\ Len(third_party_projects) = 2
  /\ WellFormed(third_party_projects[1])
  /\ AbsentEverywhere(third_party_projects[2])
  /\ merge_info.status = "RuntimeError"
  /\ merge_info.path = third_party_projects[2]

LastAt(s) == CHOOSE i \in 1..Len(s) : s[i] = "@" /\ \A j \in (i + 1)..Len(s) : s[j] # "@"

\* C5, as claimed: a found entry is split on its last '@': the url is all
\* that is before it, the revision all that is after it
C5_SplitOnLastAt ==
  Resolved =>
    \A p \in Requested :
      LET e == FirstNonEmpty(p).s
      IN  /\ merge_info.info[p].url = SubSeq(e, 1, LastAt(e) - 1)
          /\ merge_info.info[p].sha1 = SubSeq(e, LastAt(e) + 1, Len(e))

----------------------------------------------------------------------------
(* Properties of the Merge Orchestrator, under Spec *)

\* the orchestrator is in its loop over the sub-projects, at project r
AtSubProject(r) == cwd = r /\ phase[Root] = "Idle" /\ "_MergeProjects" \in calls
MergeCommitIn(r) == \E i \in DOMAIN commits[r] : commits[r][i] = "merge"

\* C6: within one orchestrator run, a sub-project whose diff-check finds no
\* new history ends in Skip with no merge attempt and no commit, and the run
\* goes on with the next sub-project; a merge commit is produced for a
\* sub-project only if its diff-check found new history
C6_SkipWithoutNewHistory ==
  \A r \in Paths :
    /\ newHistory[r] = "no" =>
         /\ phase[r] = "Skip"
         /\ ~attempts[r]
         /\ ~MergeCommitIn(r)
         /\ "_GenerateMakefiles" \notin calls => commits[r] = << >>
         /\ AtSubProject(r) => pc = "sub_next" /\ error = "none" /\ exitCode = -1
    /\ MergeCommitIn(r) => newHistory[r] = "yes"

C6_Witness ==
  /\ pc = "root_checkout"
  /\ \E r \in Paths, r2 \in Paths :
       /\ newHistory[r] = "no"
       /\ phase[r] = "Skip"
       /\ commits[r] = << >>
       /\ newHistory[r2] = "yes"
       /\ phase[r2] = "Merged"
       /\ MergeCommitIn(r2)

\* C7: a second run of the orchestrator on a sub-project whose resolved
\* revision the previous run merged passes Start and Fetch, reaches Skip,
\* produces no commit and raises no error
C7_RerunIsNoOp ==
  \A r \in Paths :
    ( /\ run = 2
      /\ prev.merged[r] # 0
      /\ merge_info.status = "ok"
      /\ ShaToRev(merge_info.info[r].sha1) = prev.merged[r]
      /\ phase[r] # "Idle"
      /\ ~faults )
    => /\ AtSubProject(r) => error = "none"
       /\ phase[r] \in {"Start", "Fetch", "Diff-check", "Skip"}
       /\ commits[r] = << >>

OnlyDeletedByUs(st) == st # {} /\ \A e \in st : e[1] = "DU"
InCheck == pc \in {"chk_rm", "chk_status2", "chk_prompt", "chk_commit"}
Committed == pc \in {"sub_next", "import"} /\ lastCmd.cmd = "commit" /\ lastCmd.rc = 0

\* C8: when the status after a merge attempt reports 'deleted by us' for a
\* file F and no other conflict, the orchestrator removes F from tracking and
\* commits with the autogenerated message, without ever prompting the operator
C8_DeletedByUsAutoResolved ==
  OnlyDeletedByUs(reported) =>
    /\ pc # "chk_prompt"
    /\ prompts = 0
    /\ ~replied
    /\ InCheck \/ Committed \/ (pc = "raised" /\ faults)
    /\ pc \in {"chk_status2", "chk_commit"} \/ Committed =>
         \A e \in reported : e[2] \notin tracked[cwd]
    /\ Committed =>
         /\ lastCmd.msg.by = "tool"
         /\ lastCmd.msg.text = AUTOGEN_MESSAGE
         /\ lastCmd.msg = commit_message
         /\ lastCmd.cwd = cwd
         /\ commits[cwd] # << >>
         /\ commits[cwd][Len(commits[cwd])] = "merge"

C8_Witness ==
  /\ Committed
  /\ OnlyDeletedByUs(reported)
  /\ \A e \in reported : e[2] \notin tracked[cwd]
  /\ prompts = 0
  /\ lastCmd.msg.text = AUTOGEN_MESSAGE

Aborting == {"checkout", "fetch", "rev-list", "status", "rm", "commit"}

\* C9: a non-zero result of git merge never aborts the run, the conflict
\* resolution follows it; a non-zero result of checkout, fetch, rev-list,
\* status, rm or commit aborts the run at once
C9_OnlyMergeMayFail ==
  /\ (lastCmd.cmd = "merge" /\ lastCmd.rc # 0) =>
       /\ pc = "chk_status1"
       /\ error = "none"
       /\ exitCode = -1
       /\ phase[lastCmd.cwd] = "Conflict-resolution"
  /\ (lastCmd.cmd \in Aborting /\ lastCmd.rc # 0) =>
       /\ pc = "raised"
       /\ error # "none"
       /\ exitCode = 1

C9_Witness ==
  /\ lastCmd.cmd = "merge"
  /\ lastCmd.rc # 0
  /\ pc = "chk_status1"
  /\ status[cwd] # {}

ExclusionPassDone == pc = "scanner" \/ "GetIncompatibleDirectories" \in calls

\* C10: once the exclusion pass after the merge has completed, for every
\* (path, patterns) of KNOWN_INCOMPATIBLE no tracked file under path matches
\* any of the patterns
C10_NoExcludedFileTracked ==
  ExclusionPassDone =>
    \A path \in DOMAIN KNOWN_INCOMPATIBLE :
      \A f \in tracked[path] : ~MatchesAny(KNOWN_INCOMPATIBLE[path], f)

C10_Witness ==
  /\ pc = "scanner"
  /\ \A path \in DOMAIN KNOWN_INCOMPATIBLE :
       /\ commits[path] # << >>
       /\ commits[path][Len(commits[path])] = "exclude"
       /\ \A f \in tracked[path] : ~MatchesAny(KNOWN_INCOMPATIBLE[path], f)

----------------------------------------------------------------------------
(* Properties of the license scan and of the Snapshot Driver, under Spec *)

ScannerCalled == "GetIncompatibleDirectories" \in calls
Regenerators == {"_GenerateNoticeFile", "GenerateNoticeFile", "_GenerateMakefiles"}
RootCommitted == phase[Root] = "Merged" /\ MergeCommitIn(Root)

\* C11: the license scanner is called only after the root merge and after
\* every entry of KNOWN_INCOMPATIBLE has been processed; when it reports
\* directories left over the snapshot fails and neither the notice file nor
\* the makefiles are regenerated
C11_ScannerLastAndFatal ==
  /\ [](ScannerCalled =>
          /\ RootCommitted
          /\ excluded = DOMAIN KNOWN_INCOMPATIBLE
          /\ remaining = {})
  /\ [](directories_left_over = "some" =>
          /\ pc = "raised"
          /\ error = "IncompatibleLicense"
          /\ exitCode = 1
          /\ calls \cap Regenerators = {})
  /\ [][(ScannerCalled' /\ ~ScannerCalled) =>
          /\ pc = "scanner"
          /\ RootCommitted
          /\ excluded = DOMAIN KNOWN_INCOMPATIBLE]_vars

C11_Witness ==
  /\ ScannerCalled
  /\ directories_left_over = "some"
  /\ pc = "raised"
  /\ excluded = DOMAIN KNOWN_INCOMPATIBLE
  /\ calls \cap Regenerators = {}

Steps == {"_MergeProjects", "_GenerateNoticeFile", "_GenerateMakefiles"}
Starts(step) == step \in calls' /\ step \notin calls
\* the commands whose non-zero return code _GetCommandStdout turns into an exception
FailedCommand == lastCmd.rc # 0 /\ lastCmd.cmd \notin {"merge", "add"}

\* C12: with new upstream history _Snapshot runs _MergeProjects, then
\* _GenerateNoticeFile, then _GenerateMakefiles; each starts only after the
\* one before it succeeded, and a failure of any of them starts no later step
\* and ends the process with a non-zero exit code
C12_StepsInOrder ==
  /\ []("_GenerateMakefiles" \in calls => "_GenerateNoticeFile" \in calls)
  /\ []("_GenerateNoticeFile" \in calls =>
          /\ "_MergeProjects" \in calls
          /\ RootCommitted
          /\ directories_left_over = "empty")
  /\ []((error # "none" \/ FailedCommand) => pc = "raised" /\ exitCode = 1)
  /\ [](pc = "raised" => error # "none" /\ exitCode = 1)
  /\ [][Starts("_MergeProjects") =>
          /\ pc = "snap_revlist"
          /\ RevList(root_sha1, head[Root]) # << >>
          /\ error' = "none"]_vars
  /\ [][Starts("_GenerateNoticeFile") =>
          /\ pc = "notice_gen"
          /\ ScannerCalled
          /\ error = "none"
          /\ "_GenerateMakefiles" \notin calls']_vars
  /\ [][Starts("_GenerateMakefiles") =>
          /\ pc = "mk_start"
          /\ "_GenerateNoticeFile" \in calls
          /\ error = "none"]_vars
  /\ [][pc' = "raised" => calls' \cap Steps = calls \cap Steps]_vars
  /\ [][pc # "raised"]_vars

C12_Witness ==
  /\ pc = "raised"
  /\ exitCode = 1
  /\ lastCmd.cmd = "commit"
  /\ cwd = Root
  /\ "_GenerateNoticeFile" \in calls
  /\ "_GenerateMakefiles" \notin calls

FastFail == args \/ ~envMarker
\* no command was given to git and nothing was called in this invocation
NothingDone ==
  /\ lastCmd = NoCmd
  /\ calls = {}
  /\ root_sha1 = 0
  /\ \A r \in Repos : commits[r] = << >> /\ phase[r] = "Idle"

\* C13: with positional arguments, or without the environment marker, main
\* returns exit code 1 before any network or repository operation (no fetch,
\* checkout, merge or commit)
C13_FastFail ==
  /\ [](FastFail =>
          /\ NothingDone
          /\ pc \in {"main", "done"}
          /\ pc = "done" => exitCode = 1)
  /\ [][(FastFail /\ pc = "main") =>
          /\ pc' = "done"
          /\ exitCode' = 1
          /\ UNCHANGED <<lastCmd, refs, index, history>>]_vars

C13_Witness ==
  /\ ~args
  /\ ~envMarker
  /\ pc = "done"
  /\ exitCode = 1
  /\ NothingDone

----------------------------------------------------------------------------
(* Properties of _CheckNoConflictsAndCommitMerge, under Spec *)

\* status holds the conflict entries of the repository, and nothing else
ConflictsRemain == status[cwd] # {}
MergeCommitStep == pc = "chk_commit" /\ lastCmd'.cmd = "commit"

\* C14: a merge commit is issued only after a status that shows no conflict
\* marker; while a marker remains the operator is prompted and the status is
\* read again, and the function neither commits nor fails by itself, however
\* many rounds that takes
C14_CommitOnlyWithoutConflicts ==
  /\ [](pc = "chk_commit" =>
          /\ ~ConflictsRemain
          /\ lastCmd.cmd = "status"
          /\ lastCmd.rc = 0)
  /\ [](pc = "chk_prompt" => ConflictsRemain /\ lastCmd.cmd = "status" /\ lastCmd.rc = 0)
  /\ [][MergeCommitStep => ~ConflictsRemain /\ lastCmd.cmd = "status"]_vars
  /\ [][(\E r \in Repos : Len(commits'[r]) > Len(commits[r]) /\ status[r] # {}) => FALSE]_vars
  /\ [][(pc = "chk_status2" /\ ConflictsRemain) =>
          \/ pc' = "chk_prompt" /\ error' = "none" /\ UNCHANGED <<commits, status>>
          \/ pc' = "raised" /\ lastCmd'.cmd = "status" /\ lastCmd'.rc # 0 /\ faults']_vars
  /\ [][pc = "chk_prompt" =>
          /\ pc' = "chk_status2"
          /\ error' = "none"
          /\ prompts' = prompts + 1
          /\ UNCHANGED commits]_vars

C14_Witness ==
  /\ Committed
  /\ prompts >= 2
  /\ reported # {}
  /\ ~ConflictsRemain
  /\ MergeCommitIn(cwd)

\* the message _MergeProjects passes for the repository the check works in
GeneratedMessage ==
  IF cwd = Root THEN ToolMsg(Root, << >>, RevToSha(root_sha1))
  ELSE ToolMsg(cwd, merge_info.info[cwd].url, merge_info.info[cwd].sha1)
InResolution == pc \in {"chk_status1", "chk_rm", "chk_status2", "chk_prompt", "chk_commit"}

\* C15: a merge commit carries the generated message (provenance and
\* AUTOGEN_MESSAGE) exactly when the operator never gave a non-empty reply
\* during the resolution; otherwise it carries the operator's most recent
\* non-empty reply, and a later empty reply does not bring the generated
\* message back
C15_CommitMessage ==
  /\ []((InResolution \/ Committed) =>
          /\ ~replied <=> commit_message.by = "tool"
          /\ ~replied => commit_message = GeneratedMessage
          /\ replied => commit_message.by = "operator" /\ commit_message.text \in OperatorMsgs
          /\ new_commit_message # "" => commit_message = OperatorMsg(new_commit_message))
  /\ [](Committed =>
          /\ lastCmd.msg = commit_message
          /\ lastCmd.msg.text = AUTOGEN_MESSAGE <=> ~replied)
  /\ [][pc = "chk_prompt" =>
          /\ new_commit_message' # "" => commit_message' = OperatorMsg(new_commit_message')
          /\ new_commit_message' = "" => commit_message' = commit_message]_vars
  /\ [][MergeCommitStep => lastCmd'.msg = commit_message /\ UNCHANGED commit_message]_vars

C15_Witness ==
  /\ Committed
  /\ prompts >= 2
  /\ replied
  /\ new_commit_message = ""
  /\ lastCmd.msg.by = "operator"
  /\ lastCmd.msg.text \in OperatorMsgs

----------------------------------------------------------------------------
(* Properties of the order of the merges, under Spec *)

Terminal == {"Skip", "Merged"}
Underway == {"Start", "Fetch", "Diff-check", "Merge-attempt", "Conflict-resolution"}
SubProjectsDone == \A r \in Paths : phase[r] \in Terminal
RootStarted == pc \in {"root_checkout", "root_fetch", "root_merge"} \/ phase[Root] # "Idle"
ExclusionStarted ==
  pc \in {"import", "excl_next", "excl_rm", "excl_status", "excl_commit"} \/ excluded # {}

\* C16: the merges are sequential: a sub-project is started only when every
\* sub-project started before it is in Skip or Merged, the root merge is
\* started only when every sub-project is in Skip or Merged, and the
\* exclusion pass starts only after the root merge was committed
C16_Sequential ==
  /\ [](\A r1 \in Repos, r2 \in Repos :
          (phase[r1] \in Underway /\ phase[r2] \in Underway) => r1 = r2)
  /\ [](\A r \in Repos : phase[r] \in Underway => cwd = r)
  /\ [](RootStarted => SubProjectsDone)
  /\ [](ExclusionStarted => SubProjectsDone /\ RootCommitted)
  /\ [][\A r \in Paths :
          (phase[r] = "Idle" /\ phase'[r] # "Idle") =>
            /\ phase'[r] = "Start"
            /\ \A r2 \in Repos \ {r} : phase[r2] \in Terminal \cup {"Idle"}
            /\ phase[Root] = "Idle"]_vars

C16_Witness ==
  /\ pc = "import"
  /\ RootCommitted
  /\ \E r \in Paths : phase[r] = "Merged"
  /\ \E r \in Paths : phase[r] = "Skip"

\* the branch checked out at line 263 starts at goog/master-chromium
NoNewRootHistory == RevList(root_sha1, goog[Root]) = << >>

\* C17: the root goes through the diff-check as a sub-project does: without
\* new history between its freshly checked-out branch and the root revision
\* it ends in Skip, and neither a merge nor a commit is attempted
C17_RootSkipsWithoutNewHistory ==
  ("_MergeProjects" \in calls /\ NoNewRootHistory /\ ~faults) =>
    /\ ~attempts[Root]
    /\ error # "NothingToCommit"
    /\ ExclusionStarted => phase[Root] = "Skip"

----------------------------------------------------------------------------
(* Properties of the exclusion pass, under Spec *)

ExcludeCommitIn(r) == \E i \in DOMAIN commits[r] : commits[r][i] = "exclude"
ExcludeMessage == "Exclude incompatible directories"

\* C18: in the exclusion pass a commit with the message 'Exclude
\* incompatible directories' is made in a path's repository if and only if
\* the removal changed what is tracked there; patterns that match nothing
\* are no error and lead to no commit
C18_ExcludeCommitIffChanged ==
  /\ [][(pc = "excl_rm" /\ pc' # "raised") =>
          /\ pc' = "excl_status"
          /\ error' = "none"
          /\ staged'[cwd] <=> tracked'[cwd] # tracked[cwd]
          /\ UNCHANGED commits]_vars
  /\ [][(pc = "excl_rm" /\ pc' = "raised") => faults' /\ lastCmd'.rc # 0]_vars
  /\ [][(pc = "excl_status" /\ pc' # "raised") =>
          /\ staged[cwd] => pc' = "excl_commit"
          /\ ~staged[cwd] => pc' = "excl_next"
          /\ UNCHANGED <<commits, tracked, staged>>]_vars
  /\ [][(pc = "excl_commit" /\ pc' # "raised") =>
          /\ staged[cwd]
          /\ commits'[cwd] = Append(commits[cwd], "exclude")
          /\ lastCmd'.msg.text = ExcludeMessage
          /\ lastCmd'.cwd = cwd
          /\ \A r \in Repos \ {cwd} : commits'[r] = commits[r]]_vars
  /\ [][\A r \in Repos :
          (ExcludeCommitIn(r)' /\ ~ExcludeCommitIn(r)) => pc = "excl_commit" /\ cwd = r]_vars
  /\ [](pc = "excl_commit" => staged[cwd] /\ cwd \in excluded)
  /\ [](\A r \in Repos : ExcludeCommitIn(r) => r \in excluded)

C18_Witness ==
  /\ pc = "scanner"
  /\ excluded = DOMAIN KNOWN_INCOMPATIBLE
  /\ ExcludeCommitIn(Root)
  /\ ~ExcludeCommitIn("v8")
  /\ error = "none"

----------------------------------------------------------------------------
(* Properties of a run that fails, under Spec *)

Raised == pc = "raised"
\* the repositories the failed run had not come to
NotReached(r) == phase[r] = "Idle"

\* C19: there is no rollback: a fatal error leaves every commit and every
\* merge-from-chromium branch the run has made as it is, and after it no
\* further sub-project, root, exclusion, notice or makefile step is run
C19_NoRollbackNoProgress ==
  /\ [][pc' = "raised" =>
          /\ UNCHANGED <<commits, branch, head, goog>>
          /\ \A r \in Repos \ {cwd} : tracked'[r] = tracked[r]
          /\ phase' = phase
          /\ exitCode' = 1]_vars
  /\ [][pc # "raised"]_vars
  /\ [](error # "none" => Raised)
  /\ [][\A r \in Repos : branch[r] => branch'[r]]_vars
  /\ [][run' = run =>
          \A r \in Repos :
            /\ Len(commits'[r]) >= Len(commits[r])
            /\ SubSeq(commits'[r], 1, Len(commits[r])) = commits[r]]_vars
  /\ [](\A r \in Repos : phase[r] = "Merged" => MergeCommitIn(r) /\ branch[r])
  /\ []((Raised /\ cwd \in Paths /\ phase[Root] = "Idle") =>
          /\ \A r \in Paths : NotReached(r) => ~attempts[r] /\ commits[r] = << >>
          /\ commits[Root] = << >>
          /\ excluded = {}
          /\ calls \cap Regenerators = {}
          /\ ~ScannerCalled)
  /\ []((Raised /\ ~ExclusionPassDone) => calls \cap Regenerators = {})

C19_Witness ==
  /\ Raised
  /\ run = 1
  /\ \E r \in Paths, k \in Paths :
       /\ r # k
       /\ cwd = k
       /\ phase[k] \in Underway
       /\ phase[r] = "Merged"
       /\ MergeCommitIn(r)
       /\ branch[r]
  /\ phase[Root] = "Idle"
  /\ ~branch[Root]
  /\ commits[Root] = << >>

----------------------------------------------------------------------------
(* Properties of the late-bound module webview_licenses, under Spec *)

LicenseCalls == {"GetIncompatibleDirectories", "GenerateNoticeFile"}
Imported == webview_licenses = "module"

\* C20: webview_licenses is never used while it is None: every call of
\* GetIncompatibleDirectories or GenerateNoticeFile comes after the import
\* that follows the committed root merge, and a run that returns as a no-op
\* or fails before the import never calls either
C20_LicensesBoundBeforeUse ==
  /\ [](pc \in {"scanner", "notice_gen"} => Imported)
  /\ [](Imported => RootCommitted /\ SubProjectsDone)
  /\ [](~Imported => calls \cap LicenseCalls = {})
  /\ [](error = "AttributeError" => merge_info.status = "AttributeError")
  /\ [][(\E c \in LicenseCalls : Starts(c)) => Imported /\ RootCommitted]_vars
  /\ [][(Imported' /\ ~Imported) => pc = "import" /\ RootCommitted]_vars

C20_Witness ==
  /\ pc = "done"
  /\ Imported
  /\ LicenseCalls \subseteq calls
  /\ "_GenerateMakefiles" \in calls

====
